---- MODULE Spec2Model ----
(***************************************************************************)
(* Model of the tokenizer (parse), the Unstack and the executor            *)
(* (interpret) of src/src/main.rs.                                         *)
(*                                                                         *)
(* Code points are modelled by ASCII names:                                *)
(*   "pleading" = U+1F97A, "sparkling_heart" = U+1F496,                    *)
(*   "point_right" = U+1F449, "point_left" = U+1F448,                      *)
(*   "heartbeat" = U+1F493, "sparkles" = U+2728, "hugging" = U+1FAC2,      *)
(*   "0".."9" the ASCII digits, " ", "-", "+", "a" other code points.      *)
(* A String is the sequence of its code points.                            *)
(* An Unstack is the sequence of its values, the bottom first: index 1 is  *)
(* depth 0.  Its size field is the length of the sequence.                 *)
(* A usize is represented by its two's complement representative: a        *)
(* negative integer k stands for 2^64 + k.                                 *)
(* hist_ip, hist_unstack and hist_call are history variables: the index    *)
(* of the operation executed last, the unstack it found and the operation  *)
(* itself.                                                                 *)
(***************************************************************************)
EXTENDS Integers, Sequences, FiniteSets, TLC

VARIABLES source, pos, word, operation, tokens, phase, panic,
          overflow_checks, instruction_pointer, unstack, out,
          hist_ip, hist_unstack, hist_call

vars == <<source, pos, word, operation, tokens, phase, panic,
          overflow_checks, instruction_pointer, unstack, out,
          hist_ip, hist_unstack, hist_call>>

parseVars == <<source, pos, word, operation>>

(********************************* bounds **********************************)
MaxOps == 3
MaxTextLen == 4
MaxUnstack == 5
MaxAbs == 50

(****************************** code points ********************************)
Digits == {"0", "1", "2", "3", "4", "5", "6", "7", "8", "9"}

OperatorChars == {"pleading", "sparkling_heart", "point_right", "point_left",
                  "heartbeat", "sparkles", "hugging"}

OperatorWords == {<<"pleading">>, <<"sparkling_heart">>,
                  <<"point_right", "point_left">>, <<"heartbeat">>,
                  <<"sparkles">>, <<"hugging">>}

is_ascii_digit(ch) == ch \in Digits

DigitValue(ch) ==
  CASE ch = "0" -> 0 [] ch = "1" -> 1 [] ch = "2" -> 2 [] ch = "3" -> 3
    [] ch = "4" -> 4 [] ch = "5" -> 5 [] ch = "6" -> 6 [] ch = "7" -> 7
    [] ch = "8" -> 8 [] ch = "9" -> 9

\* faulty variant: a minus sign is read as part of the argument
IsDelimiter_SignInWord(ch) ==
  ~(ch \in OperatorChars \/ is_ascii_digit(ch) \/ ch = "-")

IsDelimiter(ch) == ~(ch \in OperatorChars \/ is_ascii_digit(ch))

(******************************** Option ***********************************)
None == <<>>
Some(x) == <<x>>
Unwrap(o) == o[1]

(***************************** str::parse::<i64> ***************************)
RECURSIVE DecimalValue(_)
DecimalValue(w) ==
  IF w = <<>> THEN 0
  ELSE 10 * DecimalValue(SubSeq(w, 1, Len(w) - 1)) + DigitValue(w[Len(w)])

AllDigits(w) == \A i \in 1..Len(w) : is_ascii_digit(w[i])

\* Ok(num) is Some(num), Err(_) is None.  An optional sign is accepted by
\* i64::from_str; the digits must be non-empty.  Texts of the model are too
\* short for the value to exceed i64::MAX.
ParseI64(w) ==
  IF w = <<>> THEN None
  ELSE IF w[1] \in {"+", "-"}
       THEN IF Len(w) > 1 /\ AllDigits(Tail(w))
            THEN Some(IF w[1] = "-" THEN 0 - DecimalValue(Tail(w))
                                    ELSE DecimalValue(Tail(w)))
            ELSE None
       ELSE IF AllDigits(w) THEN Some(DecimalValue(w)) ELSE None

\* faulty variant: a text that is no number gives 0
ArgValue_ZeroDefault(w) == IF ParseI64(w) # None THEN Unwrap(ParseI64(w)) ELSE 0

\* faulty variant: the argument is always the number of code points
ArgValue_CountOnly(w) == Len(w)

\* let value: i64 = if let Ok(num) = word.parse() { num }
\*                  else { word.chars().count() as i64 };
ArgValue(w) == IF ParseI64(w) # None THEN Unwrap(ParseI64(w)) ELSE Len(w)

\* value as usize: the same bit pattern, hence the same representative.
AsUsize(v) == v

Operation(kind, arg) == [op |-> kind, arg |-> arg]

\* faulty variant: the match has no arm for the two code point symbol
MakeToken_NoSwapArm(op, value) ==
  CASE op = <<"pleading">> -> Some(Operation("Push", value))
    [] op = <<"sparkling_heart">> -> Some(Operation("Pop", value))
    [] op = <<"heartbeat">> -> Some(Operation("Heart", AsUsize(value)))
    [] op = <<"sparkles">> -> Some(Operation("Dup", AsUsize(value)))
    [] op = <<"hugging">> -> Some(Operation("Hug", AsUsize(value)))
    [] OTHER -> None

\* match op.as_str() { ... _ => unreachable!() }: None stands for the
\* unreachable arm.
MakeToken(op, value) ==
  CASE op = <<"pleading">> -> Some(Operation("Push", value))
    [] op = <<"sparkling_heart">> -> Some(Operation("Pop", value))
    [] op = <<"point_right", "point_left">> -> Some(Operation("Swap", AsUsize(value)))
    [] op = <<"heartbeat">> -> Some(Operation("Heart", AsUsize(value)))
    [] op = <<"sparkles">> -> Some(Operation("Dup", AsUsize(value)))
    [] op = <<"hugging">> -> Some(Operation("Hug", AsUsize(value)))
    [] OTHER -> None

(******************************** Unstack **********************************)
NewUnstack == <<>>

len(u) == Len(u)

is_empty(u) == Len(u) = 0

\* faulty variant: the value is linked at the far end of the chain
push_FarEnd(u, value) == Append(u, value)

push(u, value) == <<value>> \o u

\* pop panics ("out of bounds") on an empty unstack: ok is FALSE then.
pop(u) ==
  IF Len(u) = 0 THEN [ok |-> FALSE, value |-> 0, unstack |-> u]
  ELSE [ok |-> TRUE, value |-> Head(u), unstack |-> Tail(u)]

\* for _ in 0..n { to.push(from.pop()) }: ok is FALSE when from.pop() panics.
\* A negative n stands for a count near 2^64, which never reaches 0 before
\* from is empty.
RECURSIVE Transfer(_, _, _)
Transfer(from, to, n) ==
  IF n = 0 THEN [ok |-> TRUE, from |-> from, to |-> to]
  ELSE IF ~pop(from).ok THEN [ok |-> FALSE, from |-> from, to |-> to]
  ELSE Transfer(pop(from).unstack, push(to, pop(from).value), n - 1)

(***************************** usize arithmetic ****************************)
\* a < b on usize, on representatives
UsizeLt(a, b) ==
  IF (a >= 0) = (b >= 0) THEN a < b ELSE a >= 0

\* a - b on usize: overflows when a < b; with overflow checks (debug build)
\* that panics, without them (release build) the result wraps.
UsizeSub(a, b, checks) ==
  IF UsizeLt(a, b) /\ checks THEN [ok |-> FALSE, value |-> 0]
  ELSE [ok |-> TRUE, value |-> a - b]

\* faulty variant: the counter is advanced by two
UsizeInc_Twice(a, checks) ==
  IF a = 0 - 1 /\ checks THEN [ok |-> FALSE, value |-> 0]
  ELSE [ok |-> TRUE, value |-> a + 2]

\* a + 1 on usize: overflows only at usize::MAX (representative -1)
UsizeInc(a, checks) ==
  IF a = 0 - 1 /\ checks THEN [ok |-> FALSE, value |-> 0]
  ELSE [ok |-> TRUE, value |-> a + 1]

(**************************** Unstack::swap_first **************************)
SwapResult(p, u) == [panic |-> p, unstack |-> u]

\* faulty variant: top_val is pushed before the values held in tmp
SwapRebuild_TopFirst(self, tmp, steps, top_val, checks) ==
  LET count == UsizeSub(steps, 1, checks) IN
  IF ~count.ok THEN SwapResult("ArithmeticOverflow", self)
  ELSE LET back == Transfer(tmp, push(self, top_val), count.value) IN
       IF ~back.ok THEN SwapResult("OutOfBounds", back.to)
       ELSE SwapResult("", back.to)

\* for _ in 0..steps - 1 { self.push(tmp.pop()); }  self.push(top_val);
SwapRebuild(self, tmp, steps, top_val, checks) ==
  LET count == UsizeSub(steps, 1, checks) IN
  IF ~count.ok THEN SwapResult("ArithmeticOverflow", self)
  ELSE LET back == Transfer(tmp, self, count.value) IN
       IF ~back.ok THEN SwapResult("OutOfBounds", back.to)
       ELSE SwapResult("", push(back.to, top_val))

swap_first(u, steps, checks) ==
  IF u = <<>> THEN SwapResult("UnwrapNone", u)
  ELSE LET bottom_val == Head(u)
           moved == Transfer(u, NewUnstack, steps)
       IN IF ~moved.ok THEN SwapResult("OutOfBounds", moved.from)
          ELSE LET top == pop(moved.from) IN
               IF ~top.ok THEN SwapResult("OutOfBounds", moved.from)
               ELSE SwapRebuild(push(top.unstack, bottom_val), moved.to,
                                steps, top.value, checks)

(***************************** integer division ****************************)
Abs(x) == IF x < 0 THEN 0 - x ELSE x

\* faulty variant: division rounds toward negative infinity
FloorDiv(x, d) ==
  IF d > 0 THEN x \div d ELSE (0 - x) \div (0 - d)

\* i64 division truncates toward zero
TruncDiv(x, d) ==
  IF (x < 0) = (d < 0) THEN Abs(x) \div Abs(d) ELSE 0 - (Abs(x) \div Abs(d))

(************************ interpret: the match arms ************************)
\* The outcome of one arm: panic is "" when the arm completes.
ArmResult(p, ip, u) == [panic |-> p, ip |-> ip, unstack |-> u]

\* Operations::Push(val) => unstack.push(val)
PushArm(u, ip, val) == ArmResult("", ip, push(u, val))

\* faulty variant: a zero divisor yields 0 instead of a panic
PopArm_ZeroQuotient(u, ip, val) ==
  IF is_empty(u) THEN ArmResult("EmptyUnstack", ip, u)
  ELSE IF val = 0 THEN ArmResult("", ip, push(pop(u).unstack, 0))
  ELSE ArmResult("", ip, push(pop(u).unstack, TruncDiv(pop(u).value, val)))

\* Operations::Pop(val): unstack.pop() is evaluated before the division
PopArm(u, ip, val) ==
  IF is_empty(u) THEN ArmResult("EmptyUnstack", ip, u)
  ELSE IF val = 0 THEN ArmResult("DivisionByZero", ip, pop(u).unstack)
  ELSE ArmResult("", ip, push(pop(u).unstack, TruncDiv(pop(u).value, val)))

\* Operations::Swap(steps)
SwapArm(u, ip, steps, checks) ==
  IF UsizeLt(len(u), steps) THEN ArmResult("Underflow", ip, u)
  ELSE ArmResult(swap_first(u, steps, checks).panic, ip,
                 swap_first(u, steps, checks).unstack)

\* faulty variant: the val values after the two factors are not discarded
HeartArm_NoDiscard(u, ip, val) ==
  IF UsizeLt(len(u), 2 + val) THEN ArmResult("Underflow", ip, u)
  ELSE LET a == pop(u)
           b == pop(a.unstack)
           value == a.value * b.value
       IN IF ~(a.ok /\ b.ok)
          THEN ArmResult("OutOfBounds", ip, u)
          ELSE ArmResult("", ip, push(b.unstack, value))

\* Operations::Heart(val)
HeartArm(u, ip, val) ==
  IF UsizeLt(len(u), 2 + val) THEN ArmResult("Underflow", ip, u)
  ELSE LET a == pop(u)
           b == pop(a.unstack)
           value == a.value * b.value
           discarded == Transfer(b.unstack, NewUnstack, val)
       IN IF ~(a.ok /\ b.ok /\ discarded.ok)
          THEN ArmResult("OutOfBounds", ip, u)
          ELSE ArmResult("", ip, push(discarded.from, value))

\* faulty variant: each value is pushed back once
RECURSIVE DupLoop_PushOnce(_, _, _)
DupLoop_PushOnce(u, tmp, n) ==
  IF n = 0 THEN [ok |-> TRUE, unstack |-> u]
  ELSE IF ~pop(tmp).ok THEN [ok |-> FALSE, unstack |-> u]
  ELSE DupLoop_PushOnce(push(u, pop(tmp).value), pop(tmp).unstack, n - 1)

\* for _ in 0..val { let value = tmp.pop(); unstack.push(value);
\*                   unstack.push(value); }
RECURSIVE DupLoop(_, _, _)
DupLoop(u, tmp, n) ==
  IF n = 0 THEN [ok |-> TRUE, unstack |-> u]
  ELSE IF ~pop(tmp).ok THEN [ok |-> FALSE, unstack |-> u]
  ELSE DupLoop(push(push(u, pop(tmp).value), pop(tmp).value),
               pop(tmp).unstack, n - 1)

\* Operations::Dup(val)
DupArm(u, ip, val) ==
  IF UsizeLt(len(u), val) THEN ArmResult("Underflow", ip, u)
  ELSE LET moved == Transfer(u, NewUnstack, val) IN
       IF ~moved.ok THEN ArmResult("OutOfBounds", ip, moved.from)
       ELSE LET dup == DupLoop(moved.from, moved.to, val) IN
            ArmResult(IF dup.ok THEN "" ELSE "OutOfBounds", ip, dup.unstack)

\* faulty variant: the counter goes back by the whole distance
JumpBack_WholeDistance(ip, val, checks) == UsizeSub(ip, val, checks)

\* instruction_pointer -= val - 1
JumpBack(ip, val, checks) ==
  LET back == UsizeSub(val, 1, checks) IN
  IF ~back.ok THEN back ELSE UsizeSub(ip, back.value, checks)

\* faulty variant: a taken jump leaves the tested value on the unstack
HugArm_KeepsValue(u, ip, val, checks) ==
  IF is_empty(u) THEN ArmResult("EmptyUnstack", ip, u)
  ELSE IF pop(u).value # 0
       THEN IF JumpBack(ip, val, checks).ok
            THEN ArmResult("", JumpBack(ip, val, checks).value, u)
            ELSE ArmResult("ArithmeticOverflow", ip, u)
       ELSE ArmResult("", ip, pop(u).unstack)

\* faulty variant: the jump is taken when the popped value is zero
HugArm_JumpOnZero(u, ip, val, checks) ==
  IF is_empty(u) THEN ArmResult("EmptyUnstack", ip, u)
  ELSE IF pop(u).value = 0
       THEN IF UsizeSub(ip, val - 1, checks).ok
            THEN ArmResult("", UsizeSub(ip, val - 1, checks).value,
                           pop(u).unstack)
            ELSE ArmResult("ArithmeticOverflow", ip, pop(u).unstack)
       ELSE ArmResult("", ip, pop(u).unstack)

\* Operations::Hug(val)
HugArm(u, ip, val, checks) ==
  IF is_empty(u) THEN ArmResult("EmptyUnstack", ip, u)
  ELSE IF pop(u).value # 0
       THEN IF JumpBack(ip, val, checks).ok
            THEN ArmResult("", JumpBack(ip, val, checks).value, pop(u).unstack)
            ELSE ArmResult("ArithmeticOverflow", ip, pop(u).unstack)
       ELSE ArmResult("", ip, pop(u).unstack)

(****************************** the programs *******************************)
PushValues == {0 - 7, 0, 3}
PopValues == {0 - 2, 0, 2}
SwapValues == {0, 1, 2}
HeartValues == {0, 1}
DupValues == {0, 1, 2}
HugValues == {0, 1, 2, 3}

OpSet ==
  {Operation("Push", v) : v \in PushValues} \cup
  {Operation("Pop", v) : v \in PopValues} \cup
  {Operation("Swap", v) : v \in SwapValues} \cup
  {Operation("Heart", v) : v \in HeartValues} \cup
  {Operation("Dup", v) : v \in DupValues} \cup
  {Operation("Hug", v) : v \in HugValues}

\* push 3, push 4, combine discarding 0
ProgramProduct == <<Operation("Push", 3), Operation("Push", 4),
                    Operation("Heart", 0)>>

\* push 0, push 5, jump-if-nonzero 2
ProgramJump == <<Operation("Push", 0), Operation("Push", 5),
                 Operation("Hug", 2)>>

\* a longer run through swap, duplicate, combine and divide
ProgramLong == <<Operation("Push", 3), Operation("Push", 0 - 7),
                 Operation("Push", 0), Operation("Swap", 2),
                 Operation("Dup", 2), Operation("Heart", 1),
                 Operation("Pop", 2)>>

Programs ==
  UNION {[1..n -> OpSet] : n \in 0..MaxOps} \cup
  {ProgramProduct, ProgramJump, ProgramLong}

WithinBounds(u) ==
  /\ Len(u) <= MaxUnstack
  /\ \A i \in 1..Len(u) : Abs(u[i]) <= MaxAbs

(******************************* interpret *********************************)
InLoop ==
  /\ phase = "interpret"
  /\ UsizeLt(instruction_pointer, Len(tokens))

Current == tokens[instruction_pointer + 1]

\* The end of one loop iteration: a panic of the arm ends the run, otherwise
\* instruction_pointer += 1.
Iterate(r) ==
  /\ WithinBounds(r.unstack)
  /\ hist_ip' = instruction_pointer
  /\ hist_unstack' = unstack
  /\ hist_call' = Current
  /\ unstack' = r.unstack
  /\ IF r.panic # ""
     THEN /\ phase' = "panicked"
          /\ panic' = r.panic
          /\ instruction_pointer' = instruction_pointer
     ELSE IF ~UsizeInc(r.ip, overflow_checks).ok
     THEN /\ phase' = "panicked"
          /\ panic' = "ArithmeticOverflow"
          /\ instruction_pointer' = instruction_pointer
     ELSE /\ phase' = phase
          /\ panic' = panic
          /\ instruction_pointer' = UsizeInc(r.ip, overflow_checks).value
  /\ UNCHANGED <<parseVars, tokens, overflow_checks, out>>

ExecPush ==
  /\ InLoop /\ Current.op = "Push"
  /\ Iterate(PushArm(unstack, instruction_pointer, Current.arg))

ExecPop ==
  /\ InLoop /\ Current.op = "Pop"
  /\ Iterate(PopArm(unstack, instruction_pointer, Current.arg))

ExecSwap ==
  /\ InLoop /\ Current.op = "Swap"
  /\ Iterate(SwapArm(unstack, instruction_pointer, Current.arg, overflow_checks))

ExecHeart ==
  /\ InLoop /\ Current.op = "Heart"
  /\ Iterate(HeartArm(unstack, instruction_pointer, Current.arg))

ExecDup ==
  /\ InLoop /\ Current.op = "Dup"
  /\ Iterate(DupArm(unstack, instruction_pointer, Current.arg))

ExecHug ==
  /\ InLoop /\ Current.op = "Hug"
  /\ Iterate(HugArm(unstack, instruction_pointer, Current.arg, overflow_checks))

\* for _ in 0..unstack.len() { out.push(unstack.pop()); }  out
Drain(u) == Transfer(u, <<>>, len(u))

\* faulty variant: the output keeps the order of the temporary
RECURSIVE Reverse_Keep(_)
Reverse_Keep(s) == IF s = <<>> THEN <<>> ELSE <<Head(s)>> \o Reverse_Keep(Tail(s))

\* out.push appends, Transfer pushes in front: the output is the reverse
RECURSIVE Reverse(_)
Reverse(s) == IF s = <<>> THEN <<>> ELSE Append(Reverse(Tail(s)), Head(s))

Return ==
  /\ phase = "interpret"
  /\ ~UsizeLt(instruction_pointer, Len(tokens))
  /\ phase' = "returned"
  /\ out' = Reverse(Drain(unstack).to)
  /\ unstack' = Drain(unstack).from
  /\ UNCHANGED <<parseVars, tokens, panic, overflow_checks,
                 instruction_pointer, hist_ip, hist_unstack, hist_call>>

NoHistory == 0 - 1

NoCall == Operation("none", 0)

InitInterpret ==
  /\ instruction_pointer = 0
  /\ unstack = NewUnstack
  /\ out = <<>>
  /\ panic = ""
  /\ hist_ip = NoHistory
  /\ hist_unstack = <<>>
  /\ hist_call = NoCall
  /\ overflow_checks \in BOOLEAN

\* interpret(tokens) on any operation sequence
Init ==
  /\ source = <<>> /\ pos = 1 /\ word = <<>> /\ operation = None
  /\ tokens \in Programs
  /\ phase = "interpret"
  /\ InitInterpret

Next ==
  \/ ExecPush
  \/ ExecPop
  \/ ExecSwap
  \/ ExecHeart
  \/ ExecDup
  \/ ExecHug
  \/ Return

Spec == Init /\ [][Next]_vars

(********************************* parse ***********************************)
\* the code points the texts are built from
TextChars == OperatorChars \cup {"0", "2", "3", " ", "a", "-"}

\* "🥺3🥺4💓0"
TextProduct == <<"pleading", "3", "pleading", "4", "heartbeat", "0">>

\* "🥺3 🥺4 💓0"
TextProductSpaced == <<"pleading", "3", " ", "pleading", "4", " ",
                       "heartbeat", "0">>

\* "🥺0 🥺5 🫂2"
TextJumpSpaced == <<"pleading", "0", " ", "pleading", "5", " ",
                    "hugging", "2">>

\* "🥺7-🥺 👉👈1 ✨1-💖2"
TextSwapSpaced == <<"pleading", "7", "-", "pleading", " ", "point_right",
                    "point_left", "1", " ", "sparkles", "1", "-",
                    "sparkling_heart", "2">>

\* "12🥺3 "
TextStrayDigits == <<"1", "2", "pleading", "3", " ">>

\* "🥺3 "
TextPush == <<"pleading", "3", " ">>

Texts ==
  UNION {[1..n -> TextChars] : n \in 0..MaxTextLen} \cup
  {TextProduct, TextProductSpaced, TextJumpSpaced, TextSwapSpaced,
   TextStrayDigits, TextPush}

AtChar == phase = "parse" /\ pos <= Len(source)

ch == source[pos]

\* tokens.push(match op.as_str() {...}) with the value of the word
PushToken(then) ==
  LET token == MakeToken(Unwrap(operation), ArgValue(word)) IN
  IF token = None
  THEN /\ phase' = "panicked" /\ panic' = "Unreachable" /\ tokens' = tokens
  ELSE /\ phase' = then /\ panic' = panic
       /\ tokens' = Append(tokens, Unwrap(token))

\* a code point that is neither an operator code point nor an ASCII digit
ParseDelimiter ==
  /\ AtChar /\ IsDelimiter(ch)
  /\ IF operation # None THEN PushToken(phase)
     ELSE UNCHANGED <<tokens, phase, panic>>
  /\ word' = <<>>
  /\ operation' = None
  /\ pos' = pos + 1
  /\ UNCHANGED <<source, overflow_checks, instruction_pointer, unstack, out,
                 hist_ip, hist_unstack, hist_call>>

\* word += ch; the word becomes the operation when none is pending
ParseAccumulate ==
  /\ AtChar /\ ~IsDelimiter(ch)
  /\ IF operation = None /\ Append(word, ch) \in OperatorWords
     THEN /\ operation' = Some(Append(word, ch))
          /\ word' = <<>>
     ELSE /\ operation' = operation
          /\ word' = Append(word, ch)
  /\ pos' = pos + 1
  /\ UNCHANGED <<source, tokens, phase, panic, overflow_checks,
                 instruction_pointer, unstack, out, hist_ip, hist_unstack, hist_call>>

\* after the loop: if word != "" { if let Some(op) = &operation {...} };
\* main then passes the tokens to interpret
ParseEnd ==
  /\ phase = "parse" /\ pos > Len(source)
  /\ IF word # <<>> /\ operation # None
     THEN PushToken("interpret")
     ELSE /\ phase' = "interpret" /\ UNCHANGED <<tokens, panic>>
  /\ UNCHANGED <<source, pos, word, operation, overflow_checks,
                 instruction_pointer, unstack, out, hist_ip, hist_unstack, hist_call>>

\* main: parse(source) then interpret(tokens)
InitMain ==
  /\ source \in Texts
  /\ pos = 1 /\ word = <<>> /\ operation = None
  /\ tokens = <<>>
  /\ phase = "parse"
  /\ InitInterpret

NextMain ==
  \/ ParseDelimiter
  \/ ParseAccumulate
  \/ ParseEnd
  \/ ExecPush
  \/ ExecPop
  \/ ExecSwap
  \/ ExecHeart
  \/ ExecDup
  \/ ExecHug
  \/ Return

SpecMain == InitMain /\ [][NextMain]_vars

(************************* the Unstack on its own **************************)
UnstackValues == {0 - 7, 0, 3, 4}

Call(name, arg) == [op |-> name, arg |-> arg]

\* the frame of a call on the unstack
Called(name, arg, p, u) ==
  /\ hist_call' = Call(name, arg)
  /\ hist_unstack' = unstack
  /\ unstack' = u
  /\ panic' = p
  /\ phase' = (IF p # "" THEN "panicked" ELSE phase)
  /\ UNCHANGED <<parseVars, tokens, overflow_checks, instruction_pointer,
                 out, hist_ip>>

CallPush ==
  /\ phase = "unstack"
  /\ \E value \in UnstackValues :
       /\ WithinBounds(push(unstack, value))
       /\ Called("push", value, "", push(unstack, value))

CallPop ==
  /\ phase = "unstack"
  /\ Called("pop", 0, IF pop(unstack).ok THEN "" ELSE "OutOfBounds",
            pop(unstack).unstack)

CallSwapFirst ==
  /\ phase = "unstack"
  /\ \E steps \in 0..MaxUnstack :
       Called("swap_first", steps,
              swap_first(unstack, steps, overflow_checks).panic,
              swap_first(unstack, steps, overflow_checks).unstack)

\* Unstack::new()
InitUnstack ==
  /\ source = <<>> /\ pos = 1 /\ word = <<>> /\ operation = None
  /\ tokens = <<>>
  /\ phase = "unstack"
  /\ InitInterpret

NextUnstack ==
  \/ CallPush
  \/ CallPop
  \/ CallSwapFirst

SpecUnstack == InitUnstack /\ [][NextUnstack]_vars

(******************************** claims ***********************************)
Done == phase = "returned"

\* C1 (as stated): the text "🥺3🥺4💓0" tokenizes to
\* [Push(3), Push(4), Heart(0)] and its run returns the output [12].
C1_Original ==
  (source = TextProduct /\ Done) => (tokens = ProgramProduct /\ out = <<12>>)

\* C1 (amended): the text "🥺3🥺4💓0" tokenizes to [Push(5)], the five code
\* points after the first operator being its non-numeric argument, and its
\* run returns [5]; the text "🥺3 🥺4 💓0", with a delimiter between the
\* operators, tokenizes to [Push(3), Push(4), Heart(0)] and its run returns
\* [12].
C1_Tokenize ==
  /\ (source = TextProduct /\ phase \in {"interpret", "returned"})
        => tokens = <<Operation("Push", 5)>>
  /\ (source = TextProduct /\ Done) => out = <<5>>
  /\ (source = TextProductSpaced /\ phase \in {"interpret", "returned"})
        => tokens = ProgramProduct
  /\ (source = TextProductSpaced /\ Done) => out = <<12>>
  /\ source \in {TextProduct, TextProductSpaced} => phase # "panicked"

C1_Witness == source = TextProductSpaced /\ Done /\ out = <<12>>

\* the operation of the loop iteration that a step from this state executes
Executing(kind) == InLoop /\ Current.op = kind

Completes ==
  /\ phase' = "interpret"
  /\ panic' = ""

Advances == instruction_pointer' = instruction_pointer + 1

Fails(kind) ==
  /\ phase' = "panicked"
  /\ panic' = kind

\* u with the values at depth 0 and depth d exchanged
Exchanged(u, d) ==
  [i \in 1..Len(u) |-> IF i = 1 THEN u[d + 1]
                       ELSE IF i = d + 1 THEN u[1] ELSE u[i]]

C4_Original ==
  [][Executing("Swap")
     => IF Len(unstack) < Current.arg
        THEN Fails("Underflow")
        ELSE /\ Completes
             /\ Advances
             /\ Len(unstack') = Len(unstack)
             /\ Current.arg < Len(unstack)
                   => unstack' = Exchanged(unstack, Current.arg)]_vars

\* C5 (as stated): swap_first(0) on a non-empty unstack returns normally and
\* leaves the contents and the length of the unstack as they were.
C5_Original ==
  [][(/\ phase = "unstack"
      /\ unstack # <<>>
      /\ hist_call' = Call("swap_first", 0))
     => (phase' = "unstack" /\ unstack' = unstack)]_vars

\* C6: for 0 < d < len(), swap_first(d) puts the bottom at depth d and the
\* value of depth d at the bottom, keeps every other value in place and the
\* length as it was; a second swap_first(d) restores the unstack.
C6_SwapExchanges ==
  [][(/\ phase = "unstack"
      /\ hist_call' = Call("swap_first", hist_call'.arg)
      /\ 0 < hist_call'.arg
      /\ hist_call'.arg < Len(unstack))
     => (/\ phase' = "unstack"
         /\ Len(unstack') = Len(unstack)
         /\ unstack' = Exchanged(unstack, hist_call'.arg)
         /\ swap_first(unstack', hist_call'.arg, overflow_checks)
              = SwapResult("", unstack))]_vars

C6_Witness ==
  /\ phase = "unstack"
  /\ hist_call = Call("swap_first", 2)
  /\ Len(hist_unstack) = 4
  /\ hist_unstack[1] # hist_unstack[3]
  /\ unstack = <<hist_unstack[3], hist_unstack[2], hist_unstack[1],
                 hist_unstack[4]>>

\* C7: Dup(n) fails with Underflow when len() < n; otherwise the length grows
\* by n, the 2n values nearest the bottom are the n values that were nearest
\* the bottom, each twice in a row and in their order, and the values beyond
\* depth n follow unchanged.
C7_Duplicate ==
  [][Executing("Dup")
     => IF Len(unstack) < Current.arg
        THEN Fails("Underflow")
        ELSE /\ Completes
             /\ Advances
             /\ Len(unstack') = Len(unstack) + Current.arg
             /\ \A i \in 1..Current.arg :
                  /\ unstack'[2 * i - 1] = unstack[i]
                  /\ unstack'[2 * i] = unstack[i]
             /\ \A i \in (Current.arg + 1)..Len(unstack) :
                  unstack'[i + Current.arg] = unstack[i]]_vars

C7_Witness ==
  /\ phase = "interpret"
  /\ hist_call = Operation("Dup", 2)
  /\ Len(hist_unstack) = 3
  /\ hist_unstack[1] # hist_unstack[2]
  /\ unstack = <<hist_unstack[1], hist_unstack[1], hist_unstack[2],
                 hist_unstack[2], hist_unstack[3]>>

\* C8: Heart(n) fails with Underflow when len() < n + 2; otherwise it removes
\* the n + 2 values nearest the bottom and pushes the product of the two that
\* were nearest the bottom: the length shrinks by n + 1 and the values that
\* were at depth n + 2 and beyond are unchanged; [3, 4] becomes [12].
C8_Combine ==
  [][Executing("Heart")
     => IF Len(unstack) < Current.arg + 2
        THEN Fails("Underflow")
        ELSE /\ Completes
             /\ Advances
             /\ Len(unstack') = Len(unstack) - (Current.arg + 1)
             /\ unstack'[1] = unstack[1] * unstack[2]
             /\ \A i \in (Current.arg + 3)..Len(unstack) :
                  unstack'[i - (Current.arg + 1)] = unstack[i]
             /\ (unstack = <<4, 3>> /\ Current.arg = 0)
                   => unstack' = <<12>>]_vars

C8_Witness ==
  /\ phase = "interpret"
  /\ hist_call = Operation("Heart", 1)
  /\ Len(hist_unstack) = 5
  /\ unstack = <<hist_unstack[1] * hist_unstack[2], hist_unstack[4],
                 hist_unstack[5]>>

\* q is x divided by d, rounded toward zero
IsTruncatedQuotient(q, x, d) ==
  \E r \in (1 - Abs(d))..(Abs(d) - 1) :
     /\ x = q * d + r
     /\ r # 0 => ((r < 0) = (x < 0))

C10_DivisionByZero ==
  [][/\ (Executing("Pop") /\ Current.arg = 0 /\ unstack # <<>>)
        => (Fails("DivisionByZero") /\ out' = <<>>
            /\ instruction_pointer' = instruction_pointer)
     /\ (phase = "panicked" /\ panic = "DivisionByZero") => FALSE]_vars

C10_Witness ==
  /\ phase = "panicked" /\ panic = "DivisionByZero"
  /\ hist_call = Operation("Pop", 0)
  /\ hist_unstack # <<>>
  /\ hist_ip < Len(tokens) - 1
  /\ out = <<>>

\* the counter is an index of the operation sequence
ValidIndex(ip) == ip >= 0 /\ ip < Len(tokens)

\* C11: the run ends successfully exactly when the counter is no longer a
\* valid index; the output is then the whole final unstack in pop order, the
\* final bottom first, as long as the unstack was, and the unstack is left
\* empty.
C11_Termination ==
  [][/\ phase = "interpret"
        => ((phase' = "returned") = ~ValidIndex(instruction_pointer))
     /\ (phase = "interpret" /\ phase' = "returned")
        => (/\ out' = unstack
            /\ Len(out') = Len(unstack)
            /\ unstack' = <<>>
            /\ panic' = ""
            /\ instruction_pointer' = instruction_pointer)]_vars

C11_Witness ==
  /\ phase = "returned"
  /\ Len(out) >= 3
  /\ out[1] # out[2]
  /\ unstack = <<>>
  /\ instruction_pointer = Len(tokens)

\* C12 (as stated): a taken jump Hug(n) at index i whose target i - (n - 1)
\* is not a non-negative counter (n - 1 > i, or n = 0) is fatal: the run
\* halts at that instruction and does not go on with a wrapped, clamped or
\* substituted counter.
C12_Original ==
  [][(/\ Executing("Hug")
      /\ unstack # <<>>
      /\ Head(unstack) # 0
      /\ (Current.arg = 0 \/ Current.arg - 1 > instruction_pointer))
     => (/\ phase' = "panicked"
         /\ instruction_pointer' = instruction_pointer)]_vars

\* the values that pops return until the unstack is empty, in order
RECURSIVE PopAll(_)
PopAll(u) ==
  IF ~pop(u).ok THEN <<>> ELSE <<pop(u).value>> \o PopAll(pop(u).unstack)

\* C13: the Unstack is LIFO at its bottom.  A push of v makes the length one
\* more and v the bottom, and the pops that empty the unstack then return v
\* first and after it what they returned before, so pushes v1..vk onto an
\* empty unstack are popped as vk..v1; a pop makes the length one less;
\* is_empty() holds exactly when len() is 0; pop on an empty unstack fails.
C13_Lifo ==
  [][(phase = "unstack")
     => /\ is_empty(unstack) = (len(unstack) = 0)
        /\ (len(unstack) = 0) = (unstack = <<>>)
        /\ (unstack = <<>>) => PopAll(unstack) = <<>>
        /\ (hist_call' = Call("push", hist_call'.arg)
            /\ hist_unstack' = unstack)
           => (/\ phase' = "unstack"
               /\ len(unstack') = len(unstack) + 1
               /\ unstack'[1] = hist_call'.arg
               /\ pop(unstack').ok
               /\ pop(unstack').value = hist_call'.arg
               /\ pop(unstack').unstack = unstack
               /\ PopAll(unstack') = <<hist_call'.arg>> \o PopAll(unstack))
        /\ (hist_call' = Call("pop", 0) /\ unstack # <<>>)
           => (/\ phase' = "unstack"
               /\ len(unstack') = len(unstack) - 1
               /\ PopAll(unstack) = <<unstack[1]>> \o PopAll(unstack'))
        /\ (hist_call' = Call("pop", 0) /\ unstack = <<>>)
           => Fails("OutOfBounds")]_vars

C13_Witness ==
  /\ phase = "unstack"
  /\ hist_call = Call("pop", 0)
  /\ Len(hist_unstack) = 3
  /\ hist_unstack[1] # hist_unstack[2]
  /\ unstack = Tail(hist_unstack)
  /\ PopAll(hist_unstack) = hist_unstack

\* the decimal digits in order of their value
DecimalDigits == <<"0", "1", "2", "3", "4", "5", "6", "7", "8", "9">>

IsDecimal(text) ==
  /\ text # <<>>
  /\ \A i \in 1..Len(text) : \E d \in 1..10 : DecimalDigits[d] = text[i]

\* the number that the decimal text after the digits read so far, worth acc,
\* completes
RECURSIVE DecimalNumber(_, _)
DecimalNumber(acc, text) ==
  IF text = <<>> THEN acc
  ELSE DecimalNumber(
         10 * acc + (CHOOSE d \in 0..9 : DecimalDigits[d + 1] = Head(text)),
         Tail(text))

ExpectedArgument(text) ==
  IF IsDecimal(text) THEN DecimalNumber(0, text) ELSE Len(text)

KindOf(symbol) ==
  CASE symbol = <<"pleading">> -> "Push"
    [] symbol = <<"sparkling_heart">> -> "Pop"
    [] symbol = <<"point_right", "point_left">> -> "Swap"
    [] symbol = <<"heartbeat">> -> "Heart"
    [] symbol = <<"sparkles">> -> "Dup"
    [] symbol = <<"hugging">> -> "Hug"

\* the code points of the source between the pending operator symbol and the
\* code point being read
ArgumentText == SubSeq(source, pos - Len(word), pos - 1)

PendingSymbol ==
  SubSeq(source, pos - Len(word) - Len(Unwrap(operation)),
         pos - Len(word) - 1)

\* C14: a delimiter finalizes the pending operation with the decimal value
\* of the argument text when that text is a decimal number, and otherwise
\* (empty text, or text with operator code points) with the number of code
\* points read since the operator symbol, 0 for an empty text.
C14_DelimiterArgument ==
  [][(/\ phase = "parse" /\ pos <= Len(source)
      /\ source[pos] \notin (OperatorChars \cup Digits)
      /\ operation # None)
     => (/\ word = ArgumentText
         /\ PendingSymbol = Unwrap(operation)
         /\ tokens' = Append(tokens,
                             [op |-> KindOf(PendingSymbol),
                              arg |-> ExpectedArgument(ArgumentText)])
         /\ phase' = "parse")]_vars

C14_Witness ==
  /\ source = <<"pleading", "2", "3", "a">>
  /\ phase = "interpret"
  /\ tokens = <<Operation("Push", 23)>>

\* C15 (as stated): the end of the input finalizes a pending operation as a
\* delimiter does, also when the operator symbol is the last code point and
\* the argument is empty: parse(T) is parse(T followed by a delimiter).  The
\* code points of T are read the same way in both texts, so the token that
\* the end of T adds is the one a delimiter would add.
C15_Original ==
  [][(phase = "parse" /\ pos > Len(source) /\ operation # None)
     => tokens' = Append(tokens,
                         [op |-> KindOf(Unwrap(operation)),
                          arg |-> ExpectedArgument(word)])]_vars

\* C16 (as stated): code points that belong to no operator symbol and come
\* while no operator is pending are ignored, ASCII digits included: put right
\* before an operator symbol they do not change the operation sequence, so
\* "12🥺3 " tokenizes as "🥺3 " does, to [Push(3)].
C16_Original ==
  /\ (source = TextPush /\ phase # "parse")
        => tokens = <<Operation("Push", 3)>>
  /\ (source = TextStrayDigits /\ phase # "parse")
        => tokens = <<Operation("Push", 3)>>

\* C17: the tokenizer cannot fail.  While it reads a text it is never in an
\* error state and never stuck, every step reads one code point or, at the
\* end of the text, returns the operation sequence, and no step reaches the
\* unreachable arm or another panic.
C17_ParseCannotFail ==
  /\ [](phase = "parse"
          => /\ panic = ""
             /\ pos <= Len(source) + 1
             /\ ENABLED (ParseDelimiter \/ ParseAccumulate \/ ParseEnd))
  /\ [][phase = "parse"
          => /\ panic' = ""
             /\ \/ phase' = "parse" /\ pos <= Len(source) /\ pos' = pos + 1
                \/ phase' = "interpret" /\ pos = Len(source) + 1]_vars

C17_Witness ==
  /\ source = <<"point_right", "2", "point_left", "-">>
  /\ phase = "interpret"
  /\ tokens = <<>>

\* the step from this state executes a jump that is taken
TakenJump ==
  /\ Executing("Hug")
  /\ unstack # <<>>
  /\ Head(unstack) # 0

\* C18: an operation that completes and is not a taken jump (Push, Pop, Swap,
\* Heart, Dup, or a Hug that popped zero) leaves the counter one greater than
\* it was; executing never changes the operation sequence.
C18_CounterAdvances ==
  [][/\ (InLoop /\ phase' = "interpret" /\ ~TakenJump)
        => instruction_pointer' = instruction_pointer + 1
     /\ tokens' = tokens]_vars

C18_Witness ==
  /\ phase = "interpret"
  /\ hist_call = Operation("Hug", 3)
  /\ hist_unstack # <<>> /\ Head(hist_unstack) = 0
  /\ hist_ip = 2
  /\ instruction_pointer = 3

\* C19: every operation that the tokenizer produces carries a non-negative
\* argument: "-" being a delimiter, no text makes parse emit a negative
\* value.
C19_NonNegativeArguments ==
  /\ \A i \in 1..Len(tokens) : tokens[i].arg >= 0
  /\ \A i \in 1..Len(word) : word[i] \in (OperatorChars \cup Digits)

C19_Witness ==
  /\ source = <<"pleading", "-", "3", " ">>
  /\ phase = "interpret"
  /\ tokens = <<Operation("Push", 0)>>

NoHug == \A i \in 1..Len(tokens) : tokens[i].op # "Hug"

====
